---------------------------- MODULE Spec2Model ----------------------------
(***************************************************************************)
(* Model of SmartHomeAgent (src/smart_home_agent.py): the device registry, *)
(* the rule store, the occupancy map, the four control_* handlers, the     *)
(* rule executor and the suggestion engine.                                *)
(*                                                                         *)
(* Python dicts are functions over string keys; `d[k] = v` is SetItem and  *)
(* `d.get(k, default)` is Get.  datetime.now() is a logical clock `now`    *)
(* that advances by one with every call made on the agent; the time of day *)
(* read by get_contextual_suggestions is an input of that call.            *)
(***************************************************************************)
EXTENDS Integers, Sequences, FiniteSets, TLC

VARIABLES
    devices,           \* self.devices: device id -> Device
    contextual_rules,  \* self.contextual_rules: rule id -> ContextualRule
    occupancy_status,  \* self.occupancy_status: location -> bool
    now,               \* the value of the last datetime.now() stamp
    called,            \* name of the method that returned last
    ret                \* what it returned

vars == <<devices, contextual_rules, occupancy_status, now, called, ret>>

\* Number of calls made on the agent in one behaviour.
MaxCalls == 3

---------------------------------------------------------------------------
\* Python dict primitives.

EmptyDict == [k \in {} |-> 0]

Get(d, k, default) == IF k \in DOMAIN d THEN d[k] ELSE default

SetItem(d, k, v) == [x \in (DOMAIN d) \cup {k} |-> IF x = k THEN v ELSE d[x]]

---------------------------------------------------------------------------
\* DeviceType and DeviceStatus values.

LIGHT == "light"
THERMOSTAT == "thermostat"
SECURITY_CAMERA == "security_camera"
DOOR_LOCK == "door_lock"
MOTION_SENSOR == "motion_sensor"

ON == "on"
OFF == "off"
ACTIVE == "active"
INACTIVE == "inactive"

Device(id, name, type, status, location, properties, last_updated) ==
    [id |-> id, name |-> name, type |-> type, status |-> status,
     location |-> location, properties |-> properties,
     last_updated |-> last_updated]

ContextualRule(id, name, trigger_conditions, actions, enabled, priority) ==
    [id |-> id, name |-> name, trigger_conditions |-> trigger_conditions,
     actions |-> actions, enabled |-> enabled, priority |-> priority]

\* setup_default_devices: the seeded registry, stamped at construction time t.
default_devices(t) == <<
    Device("living_room_light", "Living Room Light", LIGHT, OFF, "living_room",
           [brightness |-> 0, color |-> "white", temperature |-> 3000], t),
    Device("bedroom_light", "Bedroom Light", LIGHT, OFF, "bedroom",
           [brightness |-> 0, color |-> "white", temperature |-> 3000], t),
    Device("kitchen_light", "Kitchen Light", LIGHT, OFF, "kitchen",
           [brightness |-> 0, color |-> "white", temperature |-> 4000], t),
    Device("main_thermostat", "Main Thermostat", THERMOSTAT, ACTIVE, "hallway",
           [temperature |-> 72, target_temp |-> 72, mode |-> "auto",
            humidity |-> 45], t),
    Device("front_door_camera", "Front Door Camera", SECURITY_CAMERA, ACTIVE,
           "front_door",
           [recording |-> TRUE, motion_detection |-> TRUE,
            night_vision |-> TRUE], t),
    Device("back_door_camera", "Back Door Camera", SECURITY_CAMERA, ACTIVE,
           "back_door",
           [recording |-> FALSE, motion_detection |-> TRUE,
            night_vision |-> TRUE], t),
    Device("front_door_lock", "Front Door Lock", DOOR_LOCK, OFF, "front_door",
           [locked |-> TRUE, auto_lock |-> TRUE, access_code |-> "1234"], t),
    Device("living_room_motion", "Living Room Motion Sensor", MOTION_SENSOR,
           INACTIVE, "living_room",
           [sensitivity |-> "medium", last_motion |-> "None"], t) >>

setup_default_devices(t) ==
    LET seq == default_devices(t)
    IN  [id \in {seq[i].id : i \in 1..Len(seq)} |->
            LET i == CHOOSE j \in 1..Len(seq) : seq[j].id = id IN seq[i]]

\* setup_default_rules: the seeded rule store.
default_rules == <<
    ContextualRule("welcome_home", "Welcome Home Automation",
        [door_unlock |-> TRUE,
         time_range |-> [start |-> "06:00", end |-> "22:00"]],
        << [device_id |-> "living_room_light", action |-> "turn_on",
            brightness |-> 80],
           [device_id |-> "main_thermostat", action |-> "set_temperature",
            temperature |-> 72] >>,
        TRUE, 1),
    ContextualRule("bedtime_routine", "Bedtime Automation",
        [time |-> "22:00", occupancy |-> TRUE],
        << [device_id |-> "living_room_light", action |-> "turn_off"],
           [device_id |-> "kitchen_light", action |-> "turn_off"],
           [device_id |-> "bedroom_light", action |-> "turn_on",
            brightness |-> 30],
           [device_id |-> "main_thermostat", action |-> "set_temperature",
            temperature |-> 68] >>,
        TRUE, 2),
    ContextualRule("security_mode", "Away Security Mode",
        [occupancy |-> FALSE, duration_away |-> 30],
        << [device_id |-> "living_room_light", action |-> "turn_off"],
           [device_id |-> "bedroom_light", action |-> "turn_off"],
           [device_id |-> "kitchen_light", action |-> "turn_off"],
           [device_id |-> "front_door_camera", action |-> "enable_recording"],
           [device_id |-> "back_door_camera", action |-> "enable_recording"],
           [device_id |-> "main_thermostat", action |-> "set_temperature",
            temperature |-> 65] >>,
        TRUE, 3),
    ContextualRule("morning_routine", "Good Morning Automation",
        [time |-> "07:00", occupancy |-> TRUE],
        << [device_id |-> "living_room_light", action |-> "turn_on",
            brightness |-> 90, temperature |-> 4000],
           [device_id |-> "kitchen_light", action |-> "turn_on",
            brightness |-> 100],
           [device_id |-> "main_thermostat", action |-> "set_temperature",
            temperature |-> 73] >>,
        TRUE, 1) >>

setup_default_rules ==
    [id \in {default_rules[i].id : i \in 1..Len(default_rules)} |->
        LET i == CHOOSE j \in 1..Len(default_rules) : default_rules[j].id = id
        IN  default_rules[i]]

---------------------------------------------------------------------------
\* list_devices and get_device

\* the ids of self.devices in insertion order
DeviceOrder ==
    [i \in 1..Len(default_devices(0)) |-> default_devices(0)[i].id]

\* a filter that is None or empty: `if device_type and ...` does not test it
NoFilter == ""

\* what get_device returns for an id that is not registered
None == EmptyDict

list_devices(devs, device_type, location) ==
    SelectSeq([i \in 1..Len(DeviceOrder) |-> devs[DeviceOrder[i]]],
              LAMBDA device :
                  /\ ~(device_type # NoFilter /\ device.type # device_type)
                  /\ ~(location # NoFilter /\ device.location # location))

get_device(devs, device_id) ==
    IF device_id \in DOMAIN devs THEN devs[device_id] ELSE None

---------------------------------------------------------------------------
\* control_light

\* `if not device or device.type != DeviceType.LIGHT` is false
LightFound(devs, device_id) ==
    device_id \in DOMAIN devs /\ devs[device_id].type = LIGHT

\* LightTurnOn with the brightness clamped to 0..100
LightTurnOnClamped(device, kwargs) ==
    LET b  == Get(kwargs, "brightness", 100)
        p1 == SetItem(device.properties, "brightness",
                      IF b > 100 THEN 100 ELSE IF b < 0 THEN 0 ELSE b)
        p2 == IF "color" \in DOMAIN kwargs
              THEN SetItem(p1, "color", kwargs["color"]) ELSE p1
        p3 == IF "temperature" \in DOMAIN kwargs
              THEN SetItem(p2, "temperature", kwargs["temperature"]) ELSE p2
    IN  [device EXCEPT !.status = ON, !.properties = p3]

\* LightTurnOn with the temperature written under the key color_temperature
LightTurnOnColorTemperatureKey(device, kwargs) ==
    LET p1 == SetItem(device.properties, "brightness",
                      Get(kwargs, "brightness", 100))
        p2 == IF "color" \in DOMAIN kwargs
              THEN SetItem(p1, "color", kwargs["color"]) ELSE p1
        p3 == IF "temperature" \in DOMAIN kwargs
              THEN SetItem(p2, "color_temperature", kwargs["temperature"])
              ELSE p2
    IN  [device EXCEPT !.status = ON, !.properties = p3]

\* LightTurnOn with the status left as it was
LightTurnOnKeepsStatus(device, kwargs) ==
    [device EXCEPT !.properties =
        SetItem(@, "brightness", Get(kwargs, "brightness", 100))]

\* action == "turn_on"
LightTurnOn(device, kwargs) ==
    LET p1 == SetItem(device.properties, "brightness",
                      Get(kwargs, "brightness", 100))
        p2 == IF "color" \in DOMAIN kwargs
              THEN SetItem(p1, "color", kwargs["color"]) ELSE p1
        p3 == IF "temperature" \in DOMAIN kwargs
              THEN SetItem(p2, "temperature", kwargs["temperature"]) ELSE p2
    IN  [device EXCEPT !.status = ON, !.properties = p3]

\* LightTurnOff with the brightness left as it was
LightTurnOffKeepsBrightness(device) ==
    [device EXCEPT !.status = OFF]

\* action == "turn_off"
LightTurnOff(device) ==
    [device EXCEPT !.status = OFF,
                   !.properties = SetItem(@, "brightness", 0)]

\* LightSetBrightness without the test of the status
LightSetBrightnessAnyStatus(device, kwargs) ==
    [device EXCEPT !.properties =
        SetItem(@, "brightness", Get(kwargs, "brightness", 50))]

\* action == "set_brightness"
LightSetBrightness(device, kwargs) ==
    IF device.status = ON
    THEN [device EXCEPT !.properties =
             SetItem(@, "brightness", Get(kwargs, "brightness", 50))]
    ELSE device

\* LightTransition with the last branch an else: any other action turns off
LightTransitionElseOff(device, action, kwargs) ==
    IF action = "turn_on" THEN LightTurnOn(device, kwargs)
    ELSE IF action = "set_brightness" THEN LightSetBrightness(device, kwargs)
    ELSE LightTurnOff(device)

\* the if / elif chain of control_light
LightTransition(device, action, kwargs) ==
    IF action = "turn_on" THEN LightTurnOn(device, kwargs)
    ELSE IF action = "turn_off" THEN LightTurnOff(device)
    ELSE IF action = "set_brightness" THEN LightSetBrightness(device, kwargs)
    ELSE device

\* device.last_updated = datetime.now()
Stamp(device, t) == [device EXCEPT !.last_updated = t]

control_light(devs, device_id, action, kwargs, t) ==
    IF ~LightFound(devs, device_id)
    THEN [devices |-> devs,
          ret |-> [success |-> FALSE, error |-> "Light device not found"]]
    ELSE LET device == Stamp(LightTransition(devs[device_id], action, kwargs), t)
         IN  [devices |-> [devs EXCEPT ![device_id] = device],
              ret |-> [success |-> TRUE,
                       message |-> <<device.name, action, "completed">>,
                       device |-> device]]

---------------------------------------------------------------------------
\* control_thermostat

ThermostatFound(devs, device_id) ==
    device_id \in DOMAIN devs /\ devs[device_id].type = THERMOSTAT

\* ThermostatTransition with set_temperature writing the measured temperature
ThermostatTransitionWritesTemperature(device, action, kwargs) ==
    IF action = "set_temperature"
    THEN [device EXCEPT !.properties =
             SetItem(@, "temperature", Get(kwargs, "temperature", 72))]
    ELSE IF action = "set_mode"
    THEN [device EXCEPT !.properties =
             SetItem(@, "mode", Get(kwargs, "mode", "auto"))]
    ELSE device

\* the if / elif chain of control_thermostat
ThermostatTransition(device, action, kwargs) ==
    IF action = "set_temperature"
    THEN [device EXCEPT !.properties =
             SetItem(@, "target_temp", Get(kwargs, "temperature", 72))]
    ELSE IF action = "set_mode"
    THEN [device EXCEPT !.properties =
             SetItem(@, "mode", Get(kwargs, "mode", "auto"))]
    ELSE device

control_thermostat(devs, device_id, action, kwargs, t) ==
    IF ~ThermostatFound(devs, device_id)
    THEN [devices |-> devs,
          ret |-> [success |-> FALSE, error |-> "Thermostat device not found"]]
    ELSE LET device ==
                 Stamp(ThermostatTransition(devs[device_id], action, kwargs), t)
         IN  [devices |-> [devs EXCEPT ![device_id] = device],
              ret |-> [success |-> TRUE,
                       message |-> <<"Thermostat", action, "completed">>,
                       device |-> device]]

---------------------------------------------------------------------------
\* control_camera

CameraFound(devs, device_id) ==
    device_id \in DOMAIN devs /\ devs[device_id].type = SECURITY_CAMERA

\* the if / elif chain of control_camera
CameraTransition(device, action, kwargs) ==
    IF action = "enable_recording"
    THEN [device EXCEPT !.properties = SetItem(@, "recording", TRUE)]
    ELSE IF action = "disable_recording"
    THEN [device EXCEPT !.properties = SetItem(@, "recording", FALSE)]
    ELSE IF action = "toggle_motion_detection"
    THEN [device EXCEPT !.properties =
             SetItem(@, "motion_detection",
                     ~Get(device.properties, "motion_detection", TRUE))]
    ELSE device

control_camera(devs, device_id, action, kwargs, t) ==
    IF ~CameraFound(devs, device_id)
    THEN [devices |-> devs,
          ret |-> [success |-> FALSE, error |-> "Camera device not found"]]
    ELSE LET device ==
                 Stamp(CameraTransition(devs[device_id], action, kwargs), t)
         IN  [devices |-> [devs EXCEPT ![device_id] = device],
              ret |-> [success |-> TRUE,
                       message |-> <<"Camera", action, "completed">>,
                       device |-> device]]

---------------------------------------------------------------------------
\* control_door_lock

\* DoorLockFound without the test of the device type
DoorLockFoundAnyType(devs, device_id) ==
    device_id \in DOMAIN devs

DoorLockFound(devs, device_id) ==
    device_id \in DOMAIN devs /\ devs[device_id].type = DOOR_LOCK

\* DoorLockLock with the status left as it was
DoorLockLockKeepsStatus(device) ==
    [device EXCEPT !.properties = SetItem(@, "locked", TRUE)]

\* action == "lock": OFF = locked
DoorLockLock(device) ==
    [device EXCEPT !.status = OFF,
                   !.properties = SetItem(@, "locked", TRUE)]

\* DoorLockUnlock with the status left as it was
DoorLockUnlockKeepsStatus(device) ==
    [device EXCEPT !.properties = SetItem(@, "locked", FALSE)]

\* action == "unlock": ON = unlocked
DoorLockUnlock(device) ==
    [device EXCEPT !.status = ON,
                   !.properties = SetItem(@, "locked", FALSE)]

\* the if / elif chain of control_door_lock
DoorLockTransition(device, action, kwargs) ==
    IF action = "lock" THEN DoorLockLock(device)
    ELSE IF action = "unlock" THEN DoorLockUnlock(device)
    ELSE device

control_door_lock(devs, device_id, action, kwargs, t) ==
    IF ~DoorLockFound(devs, device_id)
    THEN [devices |-> devs,
          ret |-> [success |-> FALSE, error |-> "Door lock device not found"]]
    ELSE LET device ==
                 Stamp(DoorLockTransition(devs[device_id], action, kwargs), t)
         IN  [devices |-> [devs EXCEPT ![device_id] = device],
              ret |-> [success |-> TRUE,
                       message |-> <<"Door", action, "completed">>,
                       device |-> device]]

---------------------------------------------------------------------------
\* execute_contextual_rule

\* RuleRunnable without the test of the enabled flag
RuleRunnableIgnoresEnabled(rules, rule_id) ==
    rule_id \in DOMAIN rules

\* `if not rule or not rule.enabled` is false
RuleRunnable(rules, rule_id) ==
    rule_id \in DOMAIN rules /\ rules[rule_id].enabled

\* ActionKwargs with the parameters of the action dropped
ActionKwargsDropped(action) ==
    EmptyDict

\* action_kwargs: the action without its device_id and action keys
ActionKwargs(action) ==
    [k \in (DOMAIN action) \ {"device_id", "action"} |-> action[k]]

\* HasHandler with the door_lock branch missing
HasHandlerNoDoorLock(type) ==
    type \in {LIGHT, THERMOSTAT, SECURITY_CAMERA}

\* the device types the if / elif chain of the loop body has a branch for;
\* any other type falls to `else: continue`
HasHandler(type) ==
    type \in {LIGHT, THERMOSTAT, SECURITY_CAMERA, DOOR_LOCK}

\* Dispatch with every action sent to control_light
DispatchAlwaysLight(devs, type, device_id, action_type, kwargs, t) ==
    control_light(devs, device_id, action_type, kwargs, t)

\* the if / elif chain of the loop body: the call made for a device of `type`
Dispatch(devs, type, device_id, action_type, kwargs, t) ==
    IF type = LIGHT
    THEN control_light(devs, device_id, action_type, kwargs, t)
    ELSE IF type = THERMOSTAT
    THEN control_thermostat(devs, device_id, action_type, kwargs, t)
    ELSE IF type = SECURITY_CAMERA
    THEN control_camera(devs, device_id, action_type, kwargs, t)
    ELSE control_door_lock(devs, device_id, action_type, kwargs, t)

\* one iteration of `for action in rule.actions`, on the registry and the
\* results list so far
ExecuteAction(state, action, t) ==
    LET device_id == Get(action, "device_id", "None")
        action_type == Get(action, "action", "None")
    IN  IF device_id \notin DOMAIN state.devices
        THEN state
        ELSE IF ~HasHandler(state.devices[device_id].type)
        THEN state
        ELSE LET r == Dispatch(state.devices, state.devices[device_id].type,
                               device_id, action_type, ActionKwargs(action), t)
             IN  [devices |-> r.devices,
                  results |-> Append(state.results, r.ret)]

\* ExecuteActions with `break` in place of `continue`: the loop ends at the
\* first action that appends no result
RECURSIVE ExecuteActionsBreaks(_, _, _)
ExecuteActionsBreaks(state, actions, t) ==
    IF actions = <<>>
    THEN state
    ELSE IF ExecuteAction(state, Head(actions), t) = state
    THEN state
    ELSE ExecuteActionsBreaks(ExecuteAction(state, Head(actions), t),
                              Tail(actions), t)

\* the loop `for action in rule.actions`
RECURSIVE ExecuteActions(_, _, _)
ExecuteActions(state, actions, t) ==
    IF actions = <<>>
    THEN state
    ELSE ExecuteActions(ExecuteAction(state, Head(actions), t),
                        Tail(actions), t)

execute_contextual_rule(rules, devs, rule_id, t) ==
    IF ~RuleRunnable(rules, rule_id)
    THEN [devices |-> devs,
          ret |-> [success |-> FALSE, error |-> "Rule not found or disabled"]]
    ELSE LET rule == rules[rule_id]
             done == ExecuteActions([devices |-> devs, results |-> <<>>],
                                    rule.actions, t)
         IN  [devices |-> done.devices,
              ret |-> [success |-> TRUE, rule |-> rule.name,
                       results |-> done.results,
                       actions_completed |-> Len(done.results)]]

---------------------------------------------------------------------------
\* get_contextual_suggestions

\* datetime.time(hour, minute, second)
Time(hour, minute, second) ==
    [hour |-> hour, minute |-> minute, second |-> second]

\* a <= b on datetime.time values: field by field, hour first
TimeLE(a, b) ==
    \/ a.hour < b.hour
    \/ a.hour = b.hour /\ a.minute < b.minute
    \/ a.hour = b.hour /\ a.minute = b.minute /\ a.second <= b.second

MorningSuggestion ==
    [id |-> "morning_routine", type |-> "routine",
     title |-> "Good Morning Routine",
     description |-> "Turn on lights and adjust temperature for the day",
     actions |-> <<"turn_on_living_room_light", "set_thermostat_73",
                   "turn_on_kitchen_light">>,
     priority |-> "high"]

EveningSuggestion ==
    [id |-> "evening_routine", type |-> "routine",
     title |-> "Evening Wind Down",
     description |-> "Dim lights and prepare for relaxation",
     actions |-> <<"dim_living_room_light", "set_thermostat_70">>,
     priority |-> "medium"]

BedtimeSuggestion ==
    [id |-> "bedtime_routine", type |-> "routine",
     title |-> "Bedtime Preparation",
     description |-> "Activate bedtime routine for better sleep",
     actions |-> <<"turn_off_main_lights", "dim_bedroom_light",
                   "lower_temperature">>,
     priority |-> "high"]

AwaySuggestion ==
    [id |-> "security_mode", type |-> "security", title |-> "Away Mode",
     description |-> "Enable security features while away",
     actions |-> <<"enable_camera_recording", "lock_all_doors",
                   "turn_off_lights">>,
     priority |-> "high"]

EnergySuggestion ==
    [id |-> "energy_save", type |-> "energy", title |-> "Energy Saving",
     description |-> "Turn off unused lights to save energy",
     actions |-> <<"optimize_lighting", "adjust_thermostat">>,
     priority |-> "low"]

\* TimeSuggestions with the bedtime test an `if` of its own
TimeSuggestionsBedtimeIf(current_time) ==
    (IF TimeLE(Time(6, 0, 0), current_time)
        /\ TimeLE(current_time, Time(9, 0, 0))
     THEN <<MorningSuggestion>>
     ELSE IF TimeLE(Time(18, 0, 0), current_time)
             /\ TimeLE(current_time, Time(22, 0, 0))
     THEN <<EveningSuggestion>>
     ELSE <<>>)
    \o (IF TimeLE(Time(22, 0, 0), current_time)
           /\ TimeLE(current_time, Time(23, 0, 0))
        THEN <<BedtimeSuggestion>> ELSE <<>>)

\* the if / elif / elif on current_time
TimeSuggestions(current_time) ==
    IF TimeLE(Time(6, 0, 0), current_time) /\ TimeLE(current_time, Time(9, 0, 0))
    THEN <<MorningSuggestion>>
    ELSE IF TimeLE(Time(18, 0, 0), current_time)
            /\ TimeLE(current_time, Time(22, 0, 0))
    THEN <<EveningSuggestion>>
    ELSE IF TimeLE(Time(22, 0, 0), current_time)
            /\ TimeLE(current_time, Time(23, 0, 0))
    THEN <<BedtimeSuggestion>>
    ELSE <<>>

\* NoneOccupied with `all` in place of `not any`
AllOccupied(occupancy) ==
    \A location \in DOMAIN occupancy : occupancy[location]

\* not any(self.occupancy_status.values())
NoneOccupied(occupancy) ==
    ~(\E location \in DOMAIN occupancy : occupancy[location])

\* ActiveLights without the test of the device type
ActiveLightsAnyType(devs) ==
    {id \in DOMAIN devs : devs[id].status = ON}

\* active_lights, as the set of their ids
ActiveLights(devs) ==
    {id \in DOMAIN devs : devs[id].type = LIGHT /\ devs[id].status = ON}

get_contextual_suggestions(devs, occupancy, current_time) ==
    TimeSuggestions(current_time)
    \o (IF NoneOccupied(occupancy) THEN <<AwaySuggestion>> ELSE <<>>)
    \o (IF Cardinality(ActiveLights(devs)) > 2
        THEN <<EnergySuggestion>> ELSE <<>>)

---------------------------------------------------------------------------
\* set_occupancy_status

\* set_occupancy_status keeping only the entry it writes
set_occupancy_statusReplacesMap(occupancy, location, occupied, t) ==
    [occupancy_status |-> SetItem(EmptyDict, location, occupied),
     ret |-> [success |-> TRUE, location |-> location,
              occupied |-> occupied, timestamp |-> t]]

set_occupancy_status(occupancy, location, occupied, t) ==
    [occupancy_status |-> SetItem(occupancy, location, occupied),
     ret |-> [success |-> TRUE, location |-> location,
              occupied |-> occupied, timestamp |-> t]]

---------------------------------------------------------------------------
\* Inputs of the calls.

AbsentDeviceId == "garage_light"

\* Device ids each control_* operation is called with: the devices of its
\* type, a device of another type, and an id that is not registered.
LightIdInputs ==
    {"living_room_light", "bedroom_light", "kitchen_light", "main_thermostat",
     AbsentDeviceId}
ThermostatIdInputs == {"main_thermostat", "living_room_light", AbsentDeviceId}
CameraIdInputs == {"front_door_camera", "front_door_lock", AbsentDeviceId}
DoorLockIdInputs == {"front_door_lock", "living_room_motion", AbsentDeviceId}

UnknownAction == "toggle"

LightActionInputs == {"turn_on", "turn_off", "set_brightness", UnknownAction}
ThermostatActionInputs == {"set_temperature", "set_mode", UnknownAction}
CameraActionInputs ==
    {"enable_recording", "disable_recording", "toggle_motion_detection",
     UnknownAction}
DoorLockActionInputs == {"lock", "unlock", UnknownAction}

KwargsInputs ==
    { EmptyDict,
      [brightness |-> 150, color |-> "red", temperature |-> 68,
       mode |-> "heat"] }

\* A rule that is not one of the defaults: its actions name a device id that
\* is not registered, a motion sensor, the same device more than once, and
\* a thermostat with an action of the light table.
night_check ==
    ContextualRule("night_check", "Night Check",
        [time |-> "23:30"],
        << [device_id |-> AbsentDeviceId, action |-> "turn_on"],
           [device_id |-> "living_room_motion", action |-> "enable_recording"],
           [device_id |-> "front_door_lock", action |-> "unlock"],
           [device_id |-> "front_door_lock", action |-> "lock"],
           [device_id |-> "bedroom_light", action |-> "turn_on",
            brightness |-> -5],
           [device_id |-> "bedroom_light", action |-> "set_brightness",
            brightness |-> 30],
           [device_id |-> "main_thermostat", action |-> "turn_on",
            brightness |-> 80] >>,
        TRUE, 2)

RuleInputs == {night_check}

RuleIdInputs ==
    {"welcome_home", "bedtime_routine", "security_mode", "morning_routine",
     "night_check"}

ManagedRuleIds == {"bedtime_routine", "night_check"}

LocationInputs == {"kitchen", "bedroom"}

\* (device_type, location) filters list_devices is called with
FilterInputs == {<<NoFilter, NoFilter>>, <<LIGHT, "living_room">>}

GetDeviceIdInputs == {"main_thermostat", AbsentDeviceId}

TimeInputs ==
    {Time(h, m, sec) : h \in {5, 6, 7, 9, 12, 18, 22, 23},
                       m \in {0, 30}, sec \in {0, 1}}

Init ==
    /\ devices = setup_default_devices(0)
    /\ contextual_rules = setup_default_rules
    /\ occupancy_status = EmptyDict
    /\ now = 0
    /\ called = "__init__"
    /\ ret = "None"

CallControlLight(device_id, action, kwargs) ==
    /\ now < MaxCalls
    /\ now' = now + 1
    /\ called' = "control_light"
    /\ LET r == control_light(devices, device_id, action, kwargs, now + 1)
       IN  /\ ret' = r.ret
           /\ devices' = r.devices
    /\ UNCHANGED <<contextual_rules, occupancy_status>>

CallControlThermostat(device_id, action, kwargs) ==
    /\ now < MaxCalls
    /\ now' = now + 1
    /\ called' = "control_thermostat"
    /\ LET r == control_thermostat(devices, device_id, action, kwargs, now + 1)
       IN  /\ ret' = r.ret
           /\ devices' = r.devices
    /\ UNCHANGED <<contextual_rules, occupancy_status>>

CallControlCamera(device_id, action, kwargs) ==
    /\ now < MaxCalls
    /\ now' = now + 1
    /\ called' = "control_camera"
    /\ LET r == control_camera(devices, device_id, action, kwargs, now + 1)
       IN  /\ ret' = r.ret
           /\ devices' = r.devices
    /\ UNCHANGED <<contextual_rules, occupancy_status>>

CallControlDoorLock(device_id, action, kwargs) ==
    /\ now < MaxCalls
    /\ now' = now + 1
    /\ called' = "control_door_lock"
    /\ LET r == control_door_lock(devices, device_id, action, kwargs, now + 1)
       IN  /\ ret' = r.ret
           /\ devices' = r.devices
    /\ UNCHANGED <<contextual_rules, occupancy_status>>

\* CallExecuteContextualRule with device_id and action popped from the
\* action dicts of the rule that was run, not copied out of them
CallExecuteContextualRulePopsKeys(rule_id) ==
    /\ now < MaxCalls
    /\ now' = now + 1
    /\ called' = "execute_contextual_rule"
    /\ LET r == execute_contextual_rule(contextual_rules, devices, rule_id,
                                        now + 1)
       IN  /\ ret' = r.ret
           /\ devices' = r.devices
    /\ contextual_rules' =
           IF RuleRunnable(contextual_rules, rule_id)
           THEN [contextual_rules EXCEPT ![rule_id].actions =
                    [i \in 1..Len(@) |-> ActionKwargs(@[i])]]
           ELSE contextual_rules
    /\ UNCHANGED occupancy_status

CallExecuteContextualRule(rule_id) ==
    /\ now < MaxCalls
    /\ now' = now + 1
    /\ called' = "execute_contextual_rule"
    /\ LET r == execute_contextual_rule(contextual_rules, devices, rule_id,
                                        now + 1)
       IN  /\ ret' = r.ret
           /\ devices' = r.devices
    /\ UNCHANGED <<contextual_rules, occupancy_status>>

\* CallGetContextualSuggestions with the lights switched off when nobody is
\* recorded as present
CallGetContextualSuggestionsSwitchesOff(current_time) ==
    /\ now < MaxCalls
    /\ now' = now + 1
    /\ called' = "get_contextual_suggestions"
    /\ ret' = get_contextual_suggestions(devices, occupancy_status,
                                         current_time)
    /\ devices' =
           [id \in DOMAIN devices |->
               IF devices[id].type = LIGHT /\ NoneOccupied(occupancy_status)
               THEN Stamp(LightTurnOff(devices[id]), now + 1)
               ELSE devices[id]]
    /\ UNCHANGED <<contextual_rules, occupancy_status>>

CallGetContextualSuggestions(current_time) ==
    /\ now < MaxCalls
    /\ now' = now + 1
    /\ called' = "get_contextual_suggestions"
    /\ ret' = get_contextual_suggestions(devices, occupancy_status,
                                         current_time)
    /\ UNCHANGED <<devices, contextual_rules, occupancy_status>>

CallListDevices(device_type, location) ==
    /\ now < MaxCalls
    /\ now' = now + 1
    /\ called' = "list_devices"
    /\ ret' = list_devices(devices, device_type, location)
    /\ UNCHANGED <<devices, contextual_rules, occupancy_status>>

CallGetDevice(device_id) ==
    /\ now < MaxCalls
    /\ now' = now + 1
    /\ called' = "get_device"
    /\ ret' = get_device(devices, device_id)
    /\ UNCHANGED <<devices, contextual_rules, occupancy_status>>

CallSetOccupancyStatus(location, occupied) ==
    /\ now < MaxCalls
    /\ now' = now + 1
    /\ called' = "set_occupancy_status"
    /\ LET r == set_occupancy_status(occupancy_status, location, occupied,
                                     now + 1)
       IN  /\ occupancy_status' = r.occupancy_status
           /\ ret' = r.ret
    /\ UNCHANGED <<devices, contextual_rules>>

\* External management of the rule store: self.contextual_rules[rule.id] = rule
InstallRule(rule) ==
    /\ now < MaxCalls
    /\ now' = now + 1
    /\ called' = "install_rule"
    /\ contextual_rules' = SetItem(contextual_rules, rule.id, rule)
    /\ ret' = "None"
    /\ UNCHANGED <<devices, occupancy_status>>

\* External management of the rule store: rule.enabled = enabled
SetRuleEnabled(rule_id, enabled) ==
    /\ now < MaxCalls
    /\ rule_id \in DOMAIN contextual_rules
    /\ now' = now + 1
    /\ called' = "set_rule_enabled"
    /\ contextual_rules' =
           [contextual_rules EXCEPT ![rule_id].enabled = enabled]
    /\ ret' = "None"
    /\ UNCHANGED <<devices, occupancy_status>>

Next ==
    \/ \E id \in LightIdInputs, a \in LightActionInputs, kw \in KwargsInputs :
          CallControlLight(id, a, kw)
    \/ \E id \in ThermostatIdInputs, a \in ThermostatActionInputs,
          kw \in KwargsInputs :
          CallControlThermostat(id, a, kw)
    \/ \E id \in CameraIdInputs, a \in CameraActionInputs, kw \in KwargsInputs :
          CallControlCamera(id, a, kw)
    \/ \E id \in DoorLockIdInputs, a \in DoorLockActionInputs,
          kw \in KwargsInputs :
          CallControlDoorLock(id, a, kw)
    \/ \E rule_id \in RuleIdInputs : CallExecuteContextualRule(rule_id)
    \/ \E current_time \in TimeInputs :
          CallGetContextualSuggestions(current_time)
    \/ \E location \in LocationInputs, occupied \in BOOLEAN :
          CallSetOccupancyStatus(location, occupied)
    \/ \E f \in FilterInputs : CallListDevices(f[1], f[2])
    \/ \E device_id \in GetDeviceIdInputs : CallGetDevice(device_id)
    \/ \E rule \in RuleInputs : InstallRule(rule)
    \/ \E rule_id \in ManagedRuleIds, enabled \in BOOLEAN :
          SetRuleEnabled(rule_id, enabled)

Spec == Init /\ [][Next]_vars

---------------------------------------------------------------------------
\* Properties

\* some suggestion of the list has this id
HasSuggestion(suggestions, id) ==
    \E i \in 1..Len(suggestions) : suggestions[i].id = id

\* the device id names a registered device of this type
IsDevice(devs, device_id, type) ==
    device_id \in DOMAIN devs /\ devs[device_id].type = type

\* C1: execute_contextual_rule on a rule id that is absent from the rule
\* store, or whose enabled flag is false, returns success=false and leaves
\* every device (status, properties, last_updated) as it was.
C1_AbsentOrDisabledRuleFails ==
    [][ called' = "execute_contextual_rule" =>
            \A rule_id \in RuleIdInputs :
                (/\ \/ rule_id \notin DOMAIN contextual_rules
                    \/ contextual_rules[rule_id].enabled = FALSE
                 /\ CallExecuteContextualRule(rule_id))
                => (ret'.success = FALSE /\ devices' = devices)
      ]_vars

\* C1 witness: the executor has failed in a state where the rule store holds
\* every rule id it can be called with, so the rule it was called with is a
\* disabled one; the registry is still the seeded one.
C1_Witness ==
    /\ called = "execute_contextual_rule"
    /\ ret.success = FALSE
    /\ RuleIdInputs \subseteq DOMAIN contextual_rules
    /\ \E rule_id \in DOMAIN contextual_rules :
           ~contextual_rules[rule_id].enabled
    /\ devices = setup_default_devices(0)

\* the positions of the rule's actions whose device_id is in the registry
ResolvedActions(rule, devs) ==
    {i \in 1..Len(rule.actions) : rule.actions[i].device_id \in DOMAIN devs}

\* the positions of the rule's actions whose device_id is in the registry
\* and names a device that is not a motion sensor
ControllableActions(rule, devs) ==
    {i \in ResolvedActions(rule, devs) :
        devs[rule.actions[i].device_id].type # MOTION_SENSOR}

\* C2 as claimed: on an enabled rule the executor returns as many results,
\* and that actions_completed count, as the rule has actions whose device_id
\* resolves to a device of the registry.
C2_ResultPerResolvedAction ==
    [][ called' = "execute_contextual_rule" =>
            \A rule_id \in RuleIdInputs :
                (/\ rule_id \in DOMAIN contextual_rules
                 /\ contextual_rules[rule_id].enabled
                 /\ CallExecuteContextualRule(rule_id))
                => LET n == Cardinality(ResolvedActions(
                                contextual_rules[rule_id], devices))
                   IN  /\ ret'.success
                       /\ Len(ret'.results) = n
                       /\ ret'.actions_completed = n
      ]_vars

\* C2 amended: on an enabled rule the executor returns as many results, and
\* that actions_completed count, as the rule has actions whose device_id
\* resolves to a registered device that is not a motion sensor; the actions
\* whose device_id does not resolve or names a motion sensor are left out.
C2_ResultPerControllableAction ==
    [][ called' = "execute_contextual_rule" =>
            \A rule_id \in RuleIdInputs :
                (/\ rule_id \in DOMAIN contextual_rules
                 /\ contextual_rules[rule_id].enabled
                 /\ CallExecuteContextualRule(rule_id))
                => LET n == Cardinality(ControllableActions(
                                contextual_rules[rule_id], devices))
                   IN  /\ ret'.success
                       /\ Len(ret'.results) = n
                       /\ ret'.actions_completed = n
      ]_vars

\* C2 witness: night_check has run: seven actions, one on an id that does not
\* resolve and one on the motion sensor, five results.
C2_Witness ==
    /\ called = "execute_contextual_rule"
    /\ ret.success
    /\ ret.rule = night_check.name
    /\ Len(night_check.actions) = 7
    /\ Len(ret.results) = 5
    /\ ret.actions_completed = 5

\* C3 as claimed: with an empty occupancy map get_contextual_suggestions
\* returns no away-mode (security_mode) suggestion, at every time of day and
\* in every device state; at 07:30 on the seeded registry it returns exactly
\* the morning-routine suggestion.
C3_EmptyOccupancyNoAwayMode ==
    [][ called' = "get_contextual_suggestions" =>
            \A current_time \in TimeInputs :
                (/\ DOMAIN occupancy_status = {}
                 /\ CallGetContextualSuggestions(current_time))
                => /\ ~HasSuggestion(ret', "security_mode")
                   /\ (/\ current_time = Time(7, 30, 0)
                       /\ devices = setup_default_devices(0))
                      => ret' = <<MorningSuggestion>>
      ]_vars

\* C4: with a non-empty occupancy map in which every recorded location is
\* unoccupied, get_contextual_suggestions includes the away-mode suggestion
\* at every time of day.
C4_AllAwayGivesAwayMode ==
    [][ called' = "get_contextual_suggestions" =>
            \A current_time \in TimeInputs :
                (/\ DOMAIN occupancy_status # {}
                 /\ \A location \in DOMAIN occupancy_status :
                        occupancy_status[location] = FALSE
                 /\ CallGetContextualSuggestions(current_time))
                => HasSuggestion(ret', "security_mode")
      ]_vars

\* C4 witness: suggestions were returned with kitchen and bedroom both
\* recorded as unoccupied, the away-mode suggestion among them.
C4_Witness ==
    /\ called = "get_contextual_suggestions"
    /\ occupancy_status = [location \in {"kitchen", "bedroom"} |-> FALSE]
    /\ HasSuggestion(ret, "security_mode")

\* seconds since midnight
SecondsOfDay(t) == t.hour * 3600 + t.minute * 60 + t.second

\* the ids of the time-based suggestions of the list, in order
RoutineIds(suggestions) ==
    LET routines == SelectSeq(suggestions, LAMBDA sg : sg.type = "routine")
    IN  [i \in 1..Len(routines) |-> routines[i].id]

\* the time-based suggestion C5 states for a time of day
TimeBandIds(t) ==
    LET sod == SecondsOfDay(t)
    IN  IF 6 * 3600 <= sod /\ sod <= 9 * 3600 THEN <<"morning_routine">>
        ELSE IF 18 * 3600 <= sod /\ sod <= 22 * 3600 THEN <<"evening_routine">>
        ELSE IF 22 * 3600 < sod /\ sod <= 23 * 3600 THEN <<"bedtime_routine">>
        ELSE <<>>

\* C5: get_contextual_suggestions produces at most one time-based suggestion:
\* morning routine iff 06:00 <= t <= 09:00, otherwise evening wind-down iff
\* 18:00 <= t <= 22:00, otherwise bedtime preparation iff 22:00 < t <= 23:00,
\* and none at any other time; at 22:00 it is the evening one.
C5_OneTimeBand ==
    [][ called' = "get_contextual_suggestions" =>
            \A current_time \in TimeInputs :
                CallGetContextualSuggestions(current_time)
                => RoutineIds(ret') = TimeBandIds(current_time)
      ]_vars

\* C5 witness: the evening suggestion was returned as the only time-based one.
C5_Witness ==
    /\ called = "get_contextual_suggestions"
    /\ RoutineIds(ret) = <<"evening_routine">>

\* C6: control_light turn_off on a light returns success=true and leaves the
\* light with status off and brightness 0, whatever its state was.
C6_TurnOffZeroesBrightness ==
    [][ called' = "control_light" =>
            \A id \in LightIdInputs, kw \in KwargsInputs :
                (/\ IsDevice(devices, id, LIGHT)
                 /\ CallControlLight(id, "turn_off", kw))
                => /\ ret'.success = TRUE
                   /\ devices'[id].status = OFF
                   /\ devices'[id].properties["brightness"] = 0
      ]_vars

\* C6 witness: turn_off has returned for a light whose colour is red, which
\* only a turn_on with brightness 150 sets.
C6_Witness ==
    /\ called = "control_light"
    /\ ret.success
    /\ ret.message[2] = "turn_off"
    /\ ret.device.properties["color"] = "red"
    /\ devices[ret.device.id].status = OFF
    /\ devices[ret.device.id].properties["brightness"] = 0

\* the properties of a door lock other than locked
OtherLockProperties(device) ==
    [k \in (DOMAIN device.properties) \ {"locked"} |-> device.properties[k]]

\* the result of control_door_lock with this action
IsDoorResult(result, action) ==
    /\ result.success
    /\ result.message = <<"Door", action, "completed">>

\* C7 for direct calls: unlock leaves the other properties of the lock as they
\* were, and a lock that follows an unlock of the same device leaves it with
\* status off, locked true and the other properties as they were.
C7_DirectRoundTrip ==
    called' = "control_door_lock" =>
        \A id \in DoorLockIdInputs, kw \in KwargsInputs :
            IsDevice(devices, id, DOOR_LOCK) =>
                /\ CallControlDoorLock(id, "unlock", kw)
                   => OtherLockProperties(devices'[id])
                        = OtherLockProperties(devices[id])
                /\ (/\ called = "control_door_lock"
                    /\ IsDoorResult(ret, "unlock")
                    /\ ret.device.id = id
                    /\ CallControlDoorLock(id, "lock", kw))
                   => /\ devices'[id].status = OFF
                      /\ devices'[id].properties["locked"] = TRUE
                      /\ OtherLockProperties(devices'[id])
                           = OtherLockProperties(ret.device)

\* C7 inside a rule: an unlock result followed by a lock result on the same
\* device shows the lock with status off, locked true and the other
\* properties of the unlock result.
C7_RuleRoundTrip ==
    (called = "execute_contextual_rule" /\ ret.success) =>
        \A i \in 1..(Len(ret.results) - 1) :
            (/\ IsDoorResult(ret.results[i], "unlock")
             /\ IsDoorResult(ret.results[i + 1], "lock")
             /\ ret.results[i].device.id = ret.results[i + 1].device.id)
            => /\ ret.results[i + 1].device.status = OFF
               /\ ret.results[i + 1].device.properties["locked"] = TRUE
               /\ OtherLockProperties(ret.results[i + 1].device)
                    = OtherLockProperties(ret.results[i].device)

\* C7: control_door_lock unlock followed by control_door_lock lock leaves the
\* lock with status off and locked true, its other properties (auto_lock,
\* access_code) unchanged.
C7_UnlockLockRoundTrip ==
    [] C7_RuleRoundTrip /\ [][C7_DirectRoundTrip]_vars

\* C7 witness: a rule has unlocked and then locked the front door lock, which
\* is now off and locked, auto_lock and access_code as seeded.
C7_Witness ==
    /\ called = "execute_contextual_rule"
    /\ ret.success
    /\ \E i \in 1..(Len(ret.results) - 1) :
           /\ IsDoorResult(ret.results[i], "unlock")
           /\ ret.results[i].device.status = ON
           /\ IsDoorResult(ret.results[i + 1], "lock")
           /\ ret.results[i + 1].device.id = ret.results[i].device.id
    /\ devices["front_door_lock"].status = OFF
    /\ devices["front_door_lock"].properties =
           [locked |-> TRUE, auto_lock |-> TRUE, access_code |-> "1234"]

\* the result is a failure that carries an error message
IsFailure(result) ==
    /\ result.success = FALSE
    /\ "error" \in DOMAIN result
    /\ "message" \notin DOMAIN result

\* C8: each control_* operation called with a device id that is absent from
\* the registry, or that names a device of another type, returns
\* success=false with an error message and leaves every device unchanged,
\* last_updated included.
C8_WrongDeviceUntouched ==
    [][ /\ called' = "control_light" =>
            \A id \in LightIdInputs, a \in LightActionInputs,
               kw \in KwargsInputs :
                (/\ ~(id \in DOMAIN devices /\ devices[id].type = LIGHT)
                 /\ CallControlLight(id, a, kw))
                => (IsFailure(ret') /\ devices' = devices)
        /\ called' = "control_thermostat" =>
            \A id \in ThermostatIdInputs, a \in ThermostatActionInputs,
               kw \in KwargsInputs :
                (/\ ~(id \in DOMAIN devices /\ devices[id].type = THERMOSTAT)
                 /\ CallControlThermostat(id, a, kw))
                => (IsFailure(ret') /\ devices' = devices)
        /\ called' = "control_camera" =>
            \A id \in CameraIdInputs, a \in CameraActionInputs,
               kw \in KwargsInputs :
                (/\ ~(id \in DOMAIN devices
                      /\ devices[id].type = SECURITY_CAMERA)
                 /\ CallControlCamera(id, a, kw))
                => (IsFailure(ret') /\ devices' = devices)
        /\ called' = "control_door_lock" =>
            \A id \in DoorLockIdInputs, a \in DoorLockActionInputs,
               kw \in KwargsInputs :
                (/\ ~(id \in DOMAIN devices /\ devices[id].type = DOOR_LOCK)
                 /\ CallControlDoorLock(id, a, kw))
                => (IsFailure(ret') /\ devices' = devices)
      ]_vars

\* C8 witness: control_door_lock has returned a failure.
C8_Witness ==
    /\ called = "control_door_lock"
    /\ ret.success = FALSE
    /\ ret.error = "Door lock device not found"

\* the device is as it was but for its last_updated stamp, which is the
\* time of this call and later than the stamp it had
OnlyRestamped(id) ==
    /\ devices'[id] = [devices[id] EXCEPT !.last_updated = now']
    /\ devices'[id].last_updated > devices[id].last_updated

\* C9: a control_* operation called on a device of its type with an action
\* name that is not in the type's action table leaves the device's status
\* and every property unchanged, refreshes last_updated and reports
\* success=true.
C9_UnknownActionOnlyRestamps ==
    [][ /\ called' = "control_light" =>
            \A id \in LightIdInputs, kw \in KwargsInputs :
                (/\ IsDevice(devices, id, LIGHT)
                 /\ CallControlLight(id, UnknownAction, kw))
                => (ret'.success = TRUE /\ OnlyRestamped(id))
        /\ called' = "control_thermostat" =>
            \A id \in ThermostatIdInputs, kw \in KwargsInputs :
                (/\ IsDevice(devices, id, THERMOSTAT)
                 /\ CallControlThermostat(id, UnknownAction, kw))
                => (ret'.success = TRUE /\ OnlyRestamped(id))
        /\ called' = "control_camera" =>
            \A id \in CameraIdInputs, kw \in KwargsInputs :
                (/\ IsDevice(devices, id, SECURITY_CAMERA)
                 /\ CallControlCamera(id, UnknownAction, kw))
                => (ret'.success = TRUE /\ OnlyRestamped(id))
        /\ called' = "control_door_lock" =>
            \A id \in DoorLockIdInputs, kw \in KwargsInputs :
                (/\ IsDevice(devices, id, DOOR_LOCK)
                 /\ CallControlDoorLock(id, UnknownAction, kw))
                => (ret'.success = TRUE /\ OnlyRestamped(id))
      ]_vars

\* C9 witness: control_light has returned success for the unknown action on
\* a light that is on, and the light carries the stamp of that call.
C9_Witness ==
    /\ called = "control_light"
    /\ ret.success
    /\ ret.message[2] = UnknownAction
    /\ ret.device.status = ON
    /\ devices[ret.device.id].last_updated = now
    /\ devices[ret.device.id].properties["brightness"] > 0

\* C10: control_light set_brightness changes the brightness only if the
\* light's status is on; when it is off, brightness and status stay as they
\* were; the call returns success=true in both cases.
C10_SetBrightnessOnlyWhenOn ==
    [][ called' = "control_light" =>
            \A id \in LightIdInputs, kw \in KwargsInputs :
                (/\ IsDevice(devices, id, LIGHT)
                 /\ CallControlLight(id, "set_brightness", kw))
                => /\ ret'.success = TRUE
                   /\ devices'[id].status = devices[id].status
                   /\ devices[id].status # ON
                      => devices'[id].properties = devices[id].properties
                   /\ devices'[id].properties["brightness"]
                        # devices[id].properties["brightness"]
                      => devices[id].status = ON
      ]_vars

\* C10 witness: set_brightness has returned success for a light that is off
\* and whose brightness is still 0.
C10_Witness ==
    /\ called = "control_light"
    /\ ret.success
    /\ ret.message[2] = "set_brightness"
    /\ ret.device.status = OFF
    /\ devices[ret.device.id].properties["brightness"] = 0

\* C11: control_thermostat set_temperature on a thermostat returns
\* success=true and sets the target temperature to the value given (72 when
\* none is given), set_mode sets the mode to the value given ("auto" when
\* none is given); each leaves every other property as it was, and no
\* thermostat action changes the status.
C11_ThermostatActionsFrame ==
    [][ called' = "control_thermostat" =>
            \A id \in ThermostatIdInputs, a \in ThermostatActionInputs,
               kw \in KwargsInputs :
                (/\ IsDevice(devices, id, THERMOSTAT)
                 /\ CallControlThermostat(id, a, kw))
                => /\ ret'.success = TRUE
                   /\ devices'[id].status = devices[id].status
                   /\ a = "set_temperature"
                      => devices'[id].properties =
                           [devices[id].properties EXCEPT !["target_temp"] =
                               IF "temperature" \in DOMAIN kw
                               THEN kw["temperature"] ELSE 72]
                   /\ a = "set_mode"
                      => devices'[id].properties =
                           [devices[id].properties EXCEPT !["mode"] =
                               IF "mode" \in DOMAIN kw
                               THEN kw["mode"] ELSE "auto"]
      ]_vars

\* C11 witness: set_temperature has returned for the thermostat, whose target
\* is now 68, with the seeded mode and status.
C11_Witness ==
    /\ called = "control_thermostat"
    /\ ret.success
    /\ ret.message[2] = "set_temperature"
    /\ devices[ret.device.id].properties["target_temp"] = 68
    /\ devices[ret.device.id].properties["mode"] = "auto"
    /\ devices[ret.device.id].status = ACTIVE

\* C12: with bedtime_routine as seeded, execute_contextual_rule on it, after
\* any sequence of calls, returns success=true with actions_completed 4 and
\* leaves living_room_light off, kitchen_light off, bedroom_light on at
\* brightness 30 and the thermostat target at 68.
C12_BedtimeRoutine ==
    [][ (/\ called' = "execute_contextual_rule"
         /\ contextual_rules["bedtime_routine"]
              = setup_default_rules["bedtime_routine"]
         /\ CallExecuteContextualRule("bedtime_routine"))
        => /\ ret'.success = TRUE
           /\ ret'.actions_completed = 4
           /\ Len(ret'.results) = 4
           /\ devices'["living_room_light"].status = OFF
           /\ devices'["kitchen_light"].status = OFF
           /\ devices'["bedroom_light"].status = ON
           /\ devices'["bedroom_light"].properties["brightness"] = 30
           /\ devices'["main_thermostat"].properties["target_temp"] = 68
      ]_vars

\* C12 witness: bedtime_routine has run on a registry in which the living
\* room light had been turned on in red.
C12_Witness ==
    /\ called = "execute_contextual_rule"
    /\ ret.success
    /\ ret.rule = "Bedtime Automation"
    /\ ret.actions_completed = 4
    /\ ret.results[1].device.properties["color"] = "red"
    /\ devices["living_room_light"].status = OFF
    /\ devices["bedroom_light"].properties["brightness"] = 30

\* C13 as claimed, on its own example: a successful execution of night_check,
\* which has actions whose name belongs to the table of another device type
\* than the one they target, holds a per-action result with success=false.
C13_MismatchedActionFails ==
    (/\ called = "execute_contextual_rule"
     /\ ret.success
     /\ ret.rule = night_check.name)
    => \E i \in 1..Len(ret.results) : ret.results[i].success = FALSE

\* C13 amended: partial failure does not happen: whenever
\* execute_contextual_rule returns success=true, every per-action result of
\* its results list has success=true.
C13_NoPartialFailure ==
    (called = "execute_contextual_rule" /\ ret.success)
    => \A i \in 1..Len(ret.results) : ret.results[i].success = TRUE

\* C13 witness: night_check has run and the result of its light action on
\* the thermostat is a success of control_thermostat.
C13_Witness ==
    /\ called = "execute_contextual_rule"
    /\ ret.success
    /\ ret.rule = night_check.name
    /\ \E i \in 1..Len(ret.results) :
           /\ ret.results[i].success
           /\ ret.results[i].message = <<"Thermostat", "turn_on", "completed">>

\* C14: in every reachable state each device has the property keys it had at
\* initialization: no call adds or removes a property key.
C14_PropertyKeysFixed ==
    /\ DOMAIN devices = DOMAIN setup_default_devices(0)
    /\ \A id \in DOMAIN devices :
           DOMAIN devices[id].properties
             = DOMAIN setup_default_devices(0)[id].properties

\* C14 witness: a light has had brightness, colour and temperature written by
\* a turn_on with parameters, and holds exactly those three keys.
C14_Witness ==
    \E id \in DOMAIN devices :
        /\ devices[id].type = LIGHT
        /\ devices[id].properties =
               [brightness |-> 150, color |-> "red", temperature |-> 68]

\* the actions of the rule that are sent to a handler, in the order of the
\* rule: those whose device_id names a registered device that is not a
\* motion sensor
DispatchedActions(rule, devs) ==
    SelectSeq(rule.actions,
              LAMBDA a : /\ a.device_id \in DOMAIN devs
                         /\ devs[a.device_id].type # MOTION_SENSOR)

\* the value `d` holds for key `k` if it has the key, and `other` if not
Supplied(d, k, other) == IF k \in DOMAIN d THEN d[k] ELSE other

\* C15 for direct calls: turn_on sets status on, brightness to the value
\* supplied or 100, colour and temperature to the value supplied or the
\* value they had.
C15_DirectTurnOn ==
    called' = "control_light" =>
        \A id \in LightIdInputs, kw \in KwargsInputs :
            (/\ IsDevice(devices, id, LIGHT)
             /\ CallControlLight(id, "turn_on", kw))
            => /\ ret'.success = TRUE
               /\ devices'[id].status = ON
               /\ devices'[id].properties =
                      [brightness |-> Supplied(kw, "brightness", 100),
                       color |-> Supplied(kw, "color",
                                          devices[id].properties["color"]),
                       temperature |->
                           Supplied(kw, "temperature",
                                    devices[id].properties["temperature"])]

\* C15 for the actions of a rule: the result of a turn_on on a light shows
\* the light on at the brightness of the action, or at 100 if it has none.
C15_RuleTurnOn ==
    called' = "execute_contextual_rule" =>
        \A rule_id \in RuleIdInputs :
            (/\ rule_id \in DOMAIN contextual_rules
             /\ contextual_rules[rule_id].enabled
             /\ CallExecuteContextualRule(rule_id))
            => LET sent == DispatchedActions(contextual_rules[rule_id],
                                             devices)
               IN  /\ Len(ret'.results) = Len(sent)
                   /\ \A i \in 1..Len(sent) :
                          (/\ sent[i].action = "turn_on"
                           /\ devices[sent[i].device_id].type = LIGHT)
                          => /\ ret'.results[i].success = TRUE
                             /\ ret'.results[i].device.status = ON
                             /\ ret'.results[i].device.properties["brightness"]
                                  = Supplied(sent[i], "brightness", 100)

\* C15: control_light turn_on on a light sets status on and the brightness to
\* exactly the value supplied, above 100 and below 0 included, or to 100 when
\* none is supplied; colour and colour temperature change only when supplied.
C15_TurnOnExactBrightness ==
    [][C15_DirectTurnOn /\ C15_RuleTurnOn]_vars

\* C15 witness: turn_on has returned for a light that is now on at
\* brightness 150.
C15_Witness ==
    /\ called = "control_light"
    /\ ret.success
    /\ ret.message[2] = "turn_on"
    /\ devices[ret.device.id].status = ON
    /\ devices[ret.device.id].properties["brightness"] = 150

\* the number of devices of type light whose status is on
LightsOn(devs) ==
    Cardinality({id \in DOMAIN devs : devs[id].type = LIGHT
                                      /\ devs[id].status = ON})

\* C16: get_contextual_suggestions includes the energy-saving suggestion if
\* and only if more than two devices of type light have status on.
C16_EnergySavingIffThreeLights ==
    [][ called' = "get_contextual_suggestions" =>
            \A current_time \in TimeInputs :
                CallGetContextualSuggestions(current_time)
                => (HasSuggestion(ret', "energy_save")
                      <=> LightsOn(devices) > 2)
      ]_vars

\* C16 witness: the energy-saving suggestion was returned with the three
\* lights on.
C16_Witness ==
    /\ called = "get_contextual_suggestions"
    /\ HasSuggestion(ret, "energy_save")
    /\ LightsOn(devices) = 3

\* C17: execute_contextual_rule leaves the rule store as it was: every rule's
\* actions (device_id, action name and parameters), enabled flag, priority
\* and trigger conditions.
C17_ExecutionKeepsRules ==
    [][ called' = "execute_contextual_rule"
        => contextual_rules' = contextual_rules ]_vars

\* C17 witness: a rule has run and changed the registry, and the rule store
\* is the seeded one.
C17_Witness ==
    /\ called = "execute_contextual_rule"
    /\ ret.success
    /\ Len(ret.results) > 0
    /\ devices # setup_default_devices(0)
    /\ contextual_rules = setup_default_rules

\* C18: get_contextual_suggestions, list_devices and get_device leave the
\* device registry, the rule store and the occupancy map as they were;
\* set_occupancy_status changes nothing but the occupancy map; a step that
\* changes a device is a control_* command or a rule execution; and the set
\* of registered device ids never changes.
MutatingCalls ==
    {"control_light", "control_thermostat", "control_camera",
     "control_door_lock", "execute_contextual_rule"}

ReadOnlyCalls ==
    {"get_contextual_suggestions", "list_devices", "get_device"}

C18_ReadOnlyFrame ==
    [][ /\ called' \in ReadOnlyCalls
            => /\ devices' = devices
               /\ contextual_rules' = contextual_rules
               /\ occupancy_status' = occupancy_status
        /\ called' = "set_occupancy_status"
            => /\ devices' = devices
               /\ contextual_rules' = contextual_rules
        /\ devices' # devices => called' \in MutatingCalls
        /\ DOMAIN devices' = DOMAIN devices ]_vars

\* a read-only call answered from a registry that commands have changed and
\* an occupancy map that has been written
C18_Witness ==
    /\ called \in ReadOnlyCalls
    /\ devices # setup_default_devices(0)
    /\ DOMAIN occupancy_status # {}
    /\ DOMAIN devices = DOMAIN setup_default_devices(0)

\* C19: the occupancy map starts with no entry; a set_occupancy_status call
\* makes the entry of its location equal to the value passed, adds no other
\* entry and leaves every other entry as it was; and no other step changes
\* the map.  Hence the map holds, for each location ever set, the value of
\* its latest call, and nothing for a location never set.
C19_LastWriteWins ==
    /\ DOMAIN occupancy_status = {}
    /\ [][ /\ called' = "set_occupancy_status"
               => \A location \in LocationInputs, occupied \in BOOLEAN :
                      CallSetOccupancyStatus(location, occupied)
                      => /\ DOMAIN occupancy_status'
                                = DOMAIN occupancy_status \cup {location}
                         /\ occupancy_status'[location] = occupied
                         /\ \A other \in DOMAIN occupancy_status \ {location} :
                                occupancy_status'[other] = occupancy_status[other]
           /\ called' # "set_occupancy_status"
               => occupancy_status' = occupancy_status ]_vars

\* a location set twice with different values while another location keeps
\* the value of its only call
C19_Witness ==
    /\ called = "set_occupancy_status"
    /\ now = 3
    /\ ret.location = "kitchen"
    /\ DOMAIN occupancy_status = {"kitchen", "bedroom"}
    /\ occupancy_status["kitchen"] = ret.occupied
    /\ occupancy_status["bedroom"] # ret.occupied

\* the positions before `i` of dispatched actions that changed device `d`,
\* given the results list `r` of the dispatched actions `acts`
EarlierOn(acts, r, d, i) ==
    {j \in 1..(i - 1) : acts[j].device_id = d /\ r[j].success}

Latest(S) == CHOOSE j \in S : \A k \in S : k <= j

\* the registry the i-th dispatched action finds: each device as the latest
\* earlier action on it left it, or as it was before the run
RegistryBefore(devs, acts, r, i) ==
    [d \in DOMAIN devs |->
        IF EarlierOn(acts, r, d, i) = {}
        THEN devs[d]
        ELSE r[Latest(EarlierOn(acts, r, d, i))].device]

\* C20: on an enabled rule the results list has one entry per action on a
\* controllable registered device, in the order of the action list whatever
\* was skipped before it; the i-th entry is what the handler of the device's
\* type returns on the registry left by the entries before it; and the
\* registry after the run holds, for each device, the state of the last
\* action that targeted it.
C20_ActionsInListOrder ==
    [][ called' = "execute_contextual_rule" =>
            \A rule_id \in RuleIdInputs :
                (/\ rule_id \in DOMAIN contextual_rules
                 /\ contextual_rules[rule_id].enabled
                 /\ CallExecuteContextualRule(rule_id))
                => LET acts == DispatchedActions(contextual_rules[rule_id],
                                                 devices)
                       r == ret'.results
                   IN  /\ Len(r) = Len(acts)
                       /\ \A i \in 1..Len(acts) :
                              r[i] = Dispatch(
                                         RegistryBefore(devices, acts, r, i),
                                         devices[acts[i].device_id].type,
                                         acts[i].device_id, acts[i].action,
                                         ActionKwargs(acts[i]), now + 1).ret
                       /\ devices' = RegistryBefore(devices, acts, r,
                                                    Len(acts) + 1) ]_vars

\* the Night Check rule has run: two actions were skipped before the first
\* result, the door was unlocked then locked, the bedroom light was turned on
\* then dimmed, and the thermostat action came last
C20_Witness ==
    /\ called = "execute_contextual_rule"
    /\ ret.success
    /\ ret.rule = "Night Check"
    /\ Len(ret.results) = 5
    /\ ret.results[1].device.id = "front_door_lock"
    /\ ret.results[2].device.id = "front_door_lock"
    /\ ret.results[1].device # ret.results[2].device
    /\ devices["front_door_lock"] = ret.results[2].device
    /\ ret.results[3].device.properties["brightness"] = -5
    /\ ret.results[4].device.properties["brightness"] = 30
    /\ devices["bedroom_light"] = ret.results[4].device
    /\ ret.results[5].device.id = "main_thermostat"

\* C21: in every reachable state, every light whose status is off has
\* brightness 0.
C21_OffLightIsDark ==
    \A id \in DOMAIN devices :
        (devices[id].type = LIGHT /\ devices[id].status = OFF)
        => devices[id].properties["brightness"] = 0

\* a light that an earlier turn_on had recoloured, which only turn_on does,
\* has just been switched off, while another light is on with a positive
\* brightness
C21_Witness ==
    /\ called = "control_light"
    /\ ret.success
    /\ ret.message[2] = "turn_off"
    /\ ret.device.status = OFF
    /\ ret.device.properties["color"] = "red"
    /\ ret.device.last_updated = now
    /\ devices[ret.device.id] = ret.device
    /\ \E id \in DOMAIN devices :
           /\ devices[id].type = LIGHT
           /\ devices[id].status = ON
           /\ devices[id].properties["brightness"] > 0

\* C22: in every reachable state, every door lock has status off exactly
\* when its locked property is true and status on exactly when it is false,
\* and its status is neither active nor inactive.
C22_LockStatusMirrorsLocked ==
    \A id \in DOMAIN devices :
        devices[id].type = DOOR_LOCK
        => /\ devices[id].status = OFF <=> devices[id].properties["locked"] = TRUE
           /\ devices[id].status = ON <=> devices[id].properties["locked"] = FALSE
           /\ devices[id].status \notin {ACTIVE, INACTIVE}

\* the Night Check rule has unlocked the front door and locked it again
C22_Witness ==
    /\ called = "execute_contextual_rule"
    /\ ret.success
    /\ Len(ret.results) >= 2
    /\ ret.results[1].device.type = DOOR_LOCK
    /\ ret.results[1].device.status = ON
    /\ ret.results[1].device.properties["locked"] = FALSE
    /\ devices[ret.results[1].device.id].status = OFF
    /\ devices[ret.results[1].device.id].properties["locked"] = TRUE

=============================================================================
